---- MODULE Spec2Model ----
(***************************************************************************)
(* GameBridge (src/GameBridge.py): the py4godot node that wraps the        *)
(* twin-hands GameManager and returns JSON snapshots.                      *)
(*                                                                         *)
(* The bridge's own state is `game` and `pending_bet`.  The GameManager,   *)
(* its configuration and build_snapshot are imported from the backend and  *)
(* are not part of GameBridge.py: the GM_* operators, BuildSnapshot and    *)
(* the configuration values below follow the backend contract written in   *)
(* spec.md (sections 3, 4 and 6).                                          *)
(***************************************************************************)
EXTENDS Integers, Sequences, FiniteSets, TLC

VARIABLES
    game,          \* self.game: NoGame or the GameManager's state
    pending_bet,   \* self.pending_bet
    response,      \* the record the last bridge call serialised with json.dumps
    calls,         \* the backend calls the last bridge call made, in order
    op,            \* the last bridge call: [name, arg]
    twin,          \* a second bridge, driven by the same calls (determinism)
    steps,         \* calls made so far in the two-bridge specification; in the
                   \* pack specification, picks granted from the pack last opened
    lookup         \* the symbol name and picture index the caller of
                   \* get_symbol_index / get_symbol_name holds

vars == <<game, pending_bet, response, calls, op, twin, steps, lookup>>

(***************************************************************************)
(* Bounds of the model.                                                    *)
(***************************************************************************)
\* Largest token balance explored: a spin whose payout would pass it is not taken.
MaxTokens == 7
\* Seeds passed to new_game are 0..MaxSeed; the entropy source yields 1..MaxSeed.
MaxSeed == 2
\* Most cells (rows * columns) of the grids drawn for the grid conversion.
MaxCells == 4
\* Largest tokens and max_bet drawn for the insert/remove specification.
MaxDrawn == 5
\* Longest call sequence the two-bridge specification follows.
MaxTwinSteps == 4
\* Longest call sequence followed with get_snapshot calls left out of its copy.
MaxQuietSteps == 6
\* Picture indices passed to get_symbol_name are -1..MaxPicture.
MaxPicture == 11
\* Indices passed to buy_offer, open_pack and pick_from_pack are -1..MaxIndex.
MaxIndex == 0

(***************************************************************************)
(* Optional values: None and a present value.                              *)
(***************************************************************************)
None == <<>>
Some(v) == <<v>>

(***************************************************************************)
(* The symbol table, lines 55-70.                                          *)
(***************************************************************************)
SYMBOL_TO_INDEX ==
    [cherry |-> 0, strawberry |-> 1, seven |-> 2, lemon |-> 3, banana |-> 4,
     bell |-> 5, watermelon |-> 6, green_apple |-> 7, clover |-> 8,
     unknown |-> 9, rainbow |-> 10]

\* {v: k for k, v in SYMBOL_TO_INDEX.items()}
INDEX_TO_SYMBOL ==
    [i \in {SYMBOL_TO_INDEX[k] : k \in DOMAIN SYMBOL_TO_INDEX} |->
        CHOOSE k \in DOMAIN SYMBOL_TO_INDEX : SYMBOL_TO_INDEX[k] = i]

\* dict.get(key, default)
DictGet(d, key, default) == IF key \in DOMAIN d THEN d[key] ELSE default

(***************************************************************************)
(* Grid cells as Python sees them: None, an object with a `name`           *)
(* attribute, or any other object (converted with str()).                  *)
(***************************************************************************)
NoneCell == [kind |-> "None"]
SymbolCell(n) == [kind |-> "symbol", name |-> n]
PlainCell(s) == [kind |-> "plain", str |-> s]

\* The grid attribute: None, or a list of rows.
NoneGrid == [kind |-> "None"]
ListGrid(rows) == [kind |-> "list", rows |-> rows]

\* `not grid` is true of None and of the empty list.
GridFalsy(grid) == IF grid.kind = "None" THEN TRUE ELSE Len(grid.rows) = 0

\* Line 296: cell.name if hasattr(cell, 'name') else str(cell)
CellSymbolName(cell) == IF cell.kind = "symbol" THEN cell.name ELSE cell.str

\* Lines 293-297.
CellIndex(cell) ==
    IF cell.kind = "None" THEN 9
    ELSE DictGet(SYMBOL_TO_INDEX, CellSymbolName(cell), 9)

\* Lines 285-300 without the transposition: result[row][col].
IndicesOfUntransposed(grid) ==
    LET rows == Len(grid.rows)
        cols == IF rows > 0 THEN Len(grid.rows[1]) ELSE 0
    IN  [row \in 1..rows |-> [col \in 1..cols |-> CellIndex(grid.rows[row][col])]]

\* Lines 285-300: result[col][row] is the index of grid[row][col].
IndicesOf(grid) ==
    LET rows == Len(grid.rows)
        cols == IF rows > 0 THEN Len(grid.rows[1]) ELSE 0
    IN  [col \in 1..cols |-> [row \in 1..rows |-> CellIndex(grid.rows[row][col])]]

(***************************************************************************)
(* Backend configuration (PokerGridConfig and the data registry).          *)
(***************************************************************************)
GridRows == 1
GridCols == 2
StartTokens == 4
MaxBetStat == 3
RefreshCost == 1
PackCost == 2
PackPicks == 2
PackSize == 3
OffersPerShop == 1
PayoutPerLine == 2
\* The symbols a reel can show, by draw.
ReelSymbols == <<"cherry", "seven", "bell", "rainbow">>

(***************************************************************************)
(* The seeded generator (spec 4.1): a linear congruential generator of     *)
(* period RngMod; every draw advances the state.                           *)
(***************************************************************************)
RngMod == 4
RngStart(seed) == seed % RngMod
RngNext(s) == (5 * s + 3) % RngMod
\* The value of the k-th draw from state s, and the state after k draws.
RECURSIVE RngAfter(_, _)
RngAfter(s, k) == IF k = 0 THEN s ELSE RngAfter(RngNext(s), k - 1)
RngDraw(s, k) == RngAfter(s, k)

(***************************************************************************)
(* GameManager (spec 4.2 - 4.5).  Every operation returns the new state    *)
(* and the result record it hands to the caller.                           *)
(***************************************************************************)
NoGame == [phase |-> "NoGame"]

Ok == [success |-> TRUE]
Fail(kind) == [success |-> FALSE, error |-> kind]
FailKey(kind) == [success |-> FALSE, error_key |-> kind]
GM(g, result) == [game |-> g, result |-> result]

EmptyGrid == ListGrid([r \in 1..GridRows |-> [c \in 1..GridCols |-> NoneCell]])

\* GameManager(config, seed): Idle, tokens at the config default, empty grid.
\* Without a seed (None) one is derived from the entropy source and recorded.
GM_new(seed_arg, entropy) ==
    LET seed == IF seed_arg = None THEN entropy ELSE seed_arg[1] IN
    [grid |-> EmptyGrid, seed |-> seed, phase |-> "Idle", tokens |-> StartTokens,
     rng |-> RngStart(seed), bet |-> 0,
     offers |-> <<>>, packs |-> 0, pack_items |-> 0, pack_picks |-> 0,
     max_bet |-> MaxBetStat]

\* state_manager.get_resource_stat(name)
GM_get_resource_stat(g, name) == IF name = "max_bet" THEN g.max_bet ELSE 0

GM_start_round(g) ==
    IF g.phase = "Idle"
    THEN GM([g EXCEPT !.phase = "RoundActive"], Ok)
    ELSE GM(g, Fail("invalid_phase"))

GM_end_round(g) ==
    IF g.phase = "RoundActive"
    THEN GM([g EXCEPT !.phase = "Idle", !.bet = 0], Ok)
    ELSE GM(g, Fail("invalid_phase"))

\* Offers generated from the generator and the cost table.
ShopOffers(s) == [i \in 1..OffersPerShop |-> 1 + (RngDraw(s, i) % 2)]

GM_enter_shop(g) ==
    IF g.phase \in {"Idle", "RoundActive"}
    THEN GM([g EXCEPT !.phase = "Shop",
                      !.offers = ShopOffers(g.rng), !.packs = 1,
                      !.rng = RngAfter(g.rng, OffersPerShop)], Ok)
    ELSE GM(g, Fail("invalid_phase"))

GM_leave_shop(g) ==
    IF g.phase = "Shop" /\ g.pack_picks = 0
    THEN GM([g EXCEPT !.phase = "RoundActive", !.offers = <<>>, !.packs = 0], Ok)
    ELSE GM(g, Fail("invalid_phase"))

GM_place_bet(g, amount) ==
    IF g.phase # "RoundActive" THEN GM(g, Fail("invalid_phase"))
    ELSE IF amount <= 0 THEN GM(g, Fail("invalid_amount"))
    ELSE IF amount > g.max_bet THEN GM(g, Fail("exceeds_max_bet"))
    ELSE IF amount > g.tokens THEN GM(g, Fail("insufficient_tokens"))
    ELSE GM([g EXCEPT !.tokens = g.tokens - amount, !.bet = amount], Ok)

\* The grid drawn from state s, row by row, one draw per cell.
DrawnGrid(s) ==
    ListGrid([r \in 1..GridRows |-> [c \in 1..GridCols |->
        SymbolCell(ReelSymbols[1 + RngDraw(s, (r - 1) * GridCols + c)])]])

\* A row pays when all its cells show one symbol, rainbow standing for any.
RowMatches(row) ==
    \E n \in {ReelSymbols[i] : i \in 1..Len(ReelSymbols)} :
        \A c \in 1..Len(row) : row[c].name \in {n, "rainbow"}

MatchedRows(grid) == {r \in 1..Len(grid.rows) : RowMatches(grid.rows[r])}

\* The ScoringResult of a grid and a bet.
Score(grid, bet) ==
    [ok |-> TRUE, matches |-> MatchedRows(grid),
     payout |-> bet * PayoutPerLine * Cardinality(MatchedRows(grid))]

NoScore == [ok |-> FALSE, matches |-> {}, payout |-> 0]

GM_spin(g) ==
    IF g.phase # "RoundActive" THEN GM(g, NoScore)
    ELSE LET grid == DrawnGrid(g.rng)
             sr == Score(grid, g.bet)
         IN  GM([g EXCEPT !.grid = grid, !.tokens = g.tokens + sr.payout,
                          !.bet = 0, !.rng = RngAfter(g.rng, GridRows * GridCols)],
                sr)

InShop(g) == g.phase = "Shop" /\ g.pack_picks = 0

\* The sequence without its i-th element.
RemoveAt(seq, i) == [j \in 1..(Len(seq) - 1) |-> IF j < i THEN seq[j] ELSE seq[j + 1]]

\* The bridge passes Godot's 0-based index.
GM_buy_face_up_offer(g, index) ==
    IF ~InShop(g) THEN GM(g, FailKey("invalid_phase"))
    ELSE IF index < 0 \/ index >= Len(g.offers) THEN GM(g, FailKey("invalid_index"))
    ELSE IF g.offers[index + 1] > g.tokens THEN GM(g, FailKey("insufficient_tokens"))
    ELSE GM([g EXCEPT !.tokens = g.tokens - g.offers[index + 1],
                      !.offers = RemoveAt(g.offers, index + 1)], Ok)

GM_open_pack(g, index) ==
    IF ~InShop(g) THEN GM(g, Fail("invalid_phase"))
    ELSE IF index < 0 \/ index >= g.packs THEN GM(g, Fail("invalid_index"))
    ELSE IF PackCost > g.tokens THEN GM(g, Fail("insufficient_tokens"))
    ELSE GM([g EXCEPT !.tokens = g.tokens - PackCost, !.packs = g.packs - 1,
                      !.pack_items = PackSize, !.pack_picks = PackPicks], Ok)

GM_pick_pack_item(g, index) ==
    IF g.phase # "Shop" \/ g.pack_picks = 0 THEN GM(g, Fail("no_open_pack"))
    ELSE IF index < 0 \/ index >= g.pack_items THEN GM(g, Fail("invalid_index"))
    ELSE GM([g EXCEPT !.pack_picks = g.pack_picks - 1,
                      !.pack_items = IF g.pack_picks = 1 THEN 0 ELSE g.pack_items - 1],
            Ok)

GM_skip_pack(g) ==
    IF g.phase # "Shop" \/ g.pack_picks = 0 THEN GM(g, Fail("no_open_pack"))
    ELSE GM([g EXCEPT !.pack_picks = 0, !.pack_items = 0], Ok)

GM_refresh_shop(g) ==
    IF ~InShop(g) THEN GM(g, Fail("invalid_phase"))
    ELSE IF RefreshCost > g.tokens THEN GM(g, Fail("refresh_failed"))
    ELSE GM([g EXCEPT !.tokens = g.tokens - RefreshCost,
                      !.offers = ShopOffers(g.rng), !.packs = 1,
                      !.rng = RngAfter(g.rng, OffersPerShop)], Ok)

(***************************************************************************)
(* build_snapshot(game, pending_bet, scoring_result) (spec 4.6): a pure    *)
(* projection; the grid is reported as symbol names.                       *)
(***************************************************************************)
CellName(cell) ==
    IF cell.kind = "None" THEN "empty" ELSE CellSymbolName(cell)

GridNames(grid) ==
    IF grid.kind = "None" THEN <<>>
    ELSE [r \in 1..Len(grid.rows) |->
             [c \in 1..Len(grid.rows[r]) |-> CellName(grid.rows[r][c])]]

BuildSnapshot(g, pb, scoring) ==
    [pending_bet |-> pb, grid |-> GridNames(g.grid), phase |-> g.phase,
     tokens |-> g.tokens, offers |-> g.offers, packs |-> g.packs,
     pack_picks |-> g.pack_picks, scoring |-> scoring]

(***************************************************************************)
(* GameBridge.  Each operation is given the bridge's fields and returns    *)
(* the fields after the call, the record it serialises and the backend     *)
(* calls it made.                                                          *)
(***************************************************************************)
\* A logged backend call: the method, its argument, whether it reported
\* success and the error kind it reported.
Call(fn, arg, ok) == [ok |-> ok, fn |-> fn, arg |-> arg, why |-> ""]
Called(fn, arg, result) ==
    [ok |-> result.success, fn |-> fn, arg |-> arg,
     why |-> DictGet(result, "error", DictGet(result, "error_key", ""))]
Built == Call("build_snapshot", 0, TRUE)

Ret(g, pb, resp, cs) == [game |-> g, pending_bet |-> pb, response |-> resp, calls |-> cs]

\* json.dumps({"error": "no_game"})
ErrorOnly(kind) ==
    [seed |-> None, error |-> Some(kind), snapshot |-> None, grid_indices |-> None]
\* json.dumps(snapshot)
Snap(snapshot) ==
    [seed |-> None, error |-> None, snapshot |-> Some(snapshot), grid_indices |-> None]
\* snapshot["error"] = kind; json.dumps(snapshot)
SnapError(snapshot, kind) ==
    [seed |-> None, error |-> Some(kind), snapshot |-> Some(snapshot),
     grid_indices |-> None]

NoGameRet(g, pb) == Ret(g, pb, ErrorOnly("no_game"), <<>>)

\* `not result.get("success")`
Failed(result) == ~DictGet(result, "success", FALSE)

\* Lines 276-300.
GridToIndices(g) ==
    IF g = NoGame THEN <<>>
    ELSE IF GridFalsy(g.grid) THEN <<>>
    ELSE IndicesOf(g.grid)

\* Lines 90-106 without line 102.
NewGameKeepingBet(g, pb, seed, entropy) ==
    LET g2 == GM_new(IF seed # 0 THEN Some(seed) ELSE None, entropy)
    IN  Ret(g2, pb,
            [Snap(BuildSnapshot(g2, 0, None)) EXCEPT !.seed = Some(g2.seed)],
            <<Call("GameManager", seed, TRUE), Built>>)

\* Lines 90-106 with the entropy source used for every seed.
NewGameIgnoringSeed(g, pb, seed, entropy) ==
    LET g2 == GM_new(None, entropy)
    IN  Ret(g2, 0,
            [Snap(BuildSnapshot(g2, 0, None)) EXCEPT !.seed = Some(g2.seed)],
            <<Call("GameManager", seed, TRUE), Built>>)

\* Lines 90-106.
NewGameOp(g, pb, seed, entropy) ==
    LET g2 == GM_new(IF seed # 0 THEN Some(seed) ELSE None, entropy)
    IN  Ret(g2, 0,
            [Snap(BuildSnapshot(g2, 0, None)) EXCEPT !.seed = Some(g2.seed)],
            <<Call("GameManager", seed, TRUE), Built>>)

\* Lines 108-115.
StartRoundOp(g, pb) ==
    IF g = NoGame THEN NoGameRet(g, pb)
    ELSE LET r == GM_start_round(g)
         IN  Ret(r.game, 0, Snap(BuildSnapshot(r.game, 0, None)),
                 <<Called("start_round", 0, r.result), Built>>)

\* Lines 117-124.
EndRoundOp(g, pb) ==
    IF g = NoGame THEN NoGameRet(g, pb)
    ELSE LET r == GM_end_round(g)
         IN  Ret(r.game, 0, Snap(BuildSnapshot(r.game, 0, None)),
                 <<Called("end_round", 0, r.result), Built>>)

\* Lines 128-150 with the two checks of lines 139 and 144 off by one.
InsertTokenLoose(g, pb) ==
    IF g = NoGame THEN NoGameRet(g, pb)
    ELSE LET max_bet == GM_get_resource_stat(g, "max_bet")
             effective_tokens == g.tokens - pb
             stat == Call("get_resource_stat", 0, TRUE)
         IN  IF pb > max_bet
             THEN Ret(g, pb, SnapError(BuildSnapshot(g, pb, None), "max_bet_reached"),
                      <<stat, Built>>)
             ELSE IF effective_tokens < 0
             THEN Ret(g, pb, SnapError(BuildSnapshot(g, pb, None), "no_tokens"),
                      <<stat, Built>>)
             ELSE Ret(g, pb + 1, Snap(BuildSnapshot(g, pb + 1, None)), <<stat, Built>>)

\* Lines 128-150 with the check of lines 144-147 made before that of
\* lines 139-142.
InsertTokenTokensFirst(g, pb) ==
    IF g = NoGame THEN NoGameRet(g, pb)
    ELSE LET max_bet == GM_get_resource_stat(g, "max_bet")
             effective_tokens == g.tokens - pb
             stat == Call("get_resource_stat", 0, TRUE)
         IN  IF effective_tokens <= 0
             THEN Ret(g, pb, SnapError(BuildSnapshot(g, pb, None), "no_tokens"),
                      <<stat, Built>>)
             ELSE IF pb >= max_bet
             THEN Ret(g, pb, SnapError(BuildSnapshot(g, pb, None), "max_bet_reached"),
                      <<stat, Built>>)
             ELSE Ret(g, pb + 1, Snap(BuildSnapshot(g, pb + 1, None)), <<stat, Built>>)

\* Lines 128-150.
InsertTokenOp(g, pb) ==
    IF g = NoGame THEN NoGameRet(g, pb)
    ELSE LET max_bet == GM_get_resource_stat(g, "max_bet")
             effective_tokens == g.tokens - pb
             stat == Call("get_resource_stat", 0, TRUE)
         IN  IF pb >= max_bet
             THEN Ret(g, pb, SnapError(BuildSnapshot(g, pb, None), "max_bet_reached"),
                      <<stat, Built>>)
             ELSE IF effective_tokens <= 0
             THEN Ret(g, pb, SnapError(BuildSnapshot(g, pb, None), "no_tokens"),
                      <<stat, Built>>)
             ELSE Ret(g, pb + 1, Snap(BuildSnapshot(g, pb + 1, None)), <<stat, Built>>)

\* Lines 152-166.
RemoveTokenOp(g, pb) ==
    IF g = NoGame THEN NoGameRet(g, pb)
    ELSE IF pb <= 0
    THEN Ret(g, pb, SnapError(BuildSnapshot(g, pb, None), "no_bet_to_remove"), <<Built>>)
    ELSE Ret(g, pb - 1, Snap(BuildSnapshot(g, pb - 1, None)), <<Built>>)

\* Lines 184-193: the backend spin and the response built from it.
SpinTail(g, before) ==
    LET s == GM_spin(g)
    IN  Ret(s.game, 0,
            [Snap(BuildSnapshot(s.game, 0, Some(s.result)))
                EXCEPT !.grid_indices = Some(GridToIndices(s.game))],
            before \o <<Call("spin", 0, s.result.ok), Built>>)

\* Lines 168-193 without lines 176-182: the bet is never placed.
SpinWithoutBet(g, pb) ==
    IF g = NoGame THEN NoGameRet(g, pb)
    ELSE SpinTail(g, <<>>)

\* Lines 168-193 with the pending bet cleared when the bet is refused.
SpinClearingRefusedBet(g, pb) ==
    IF g = NoGame THEN NoGameRet(g, pb)
    ELSE IF pb > 0
    THEN LET b == GM_place_bet(g, pb)
             placed == Called("place_bet", pb, b.result)
         IN  IF Failed(b.result)
             THEN Ret(b.game, 0,
                      SnapError(BuildSnapshot(b.game, 0, None),
                                DictGet(b.result, "error", "bet_failed")),
                      <<placed, Built>>)
             ELSE SpinTail(b.game, <<placed>>)
    ELSE SpinTail(g, <<>>)

\* Lines 168-193 with the bet clamped to the balance at line 178.
SpinClampingBet(g, pb) ==
    IF g = NoGame THEN NoGameRet(g, pb)
    ELSE IF pb > 0
    THEN LET amount == IF pb > g.tokens THEN g.tokens ELSE pb
             b == GM_place_bet(g, amount)
             placed == Called("place_bet", amount, b.result)
         IN  IF Failed(b.result)
             THEN Ret(b.game, pb,
                      SnapError(BuildSnapshot(b.game, pb, None),
                                DictGet(b.result, "error", "bet_failed")),
                      <<placed, Built>>)
             ELSE SpinTail(b.game, <<placed>>)
    ELSE SpinTail(g, <<>>)

\* Lines 168-193 without the test of line 177: the bet is placed whatever
\* its amount.
SpinAlwaysPlacingBet(g, pb) ==
    IF g = NoGame THEN NoGameRet(g, pb)
    ELSE LET b == GM_place_bet(g, pb)
             placed == Called("place_bet", pb, b.result)
         IN  IF Failed(b.result)
             THEN Ret(b.game, pb,
                      SnapError(BuildSnapshot(b.game, pb, None),
                                DictGet(b.result, "error", "bet_failed")),
                      <<placed, Built>>)
             ELSE SpinTail(b.game, <<placed>>)

\* Lines 168-193.
SpinOp(g, pb) ==
    IF g = NoGame THEN NoGameRet(g, pb)
    ELSE IF pb > 0
    THEN LET b == GM_place_bet(g, pb)
             placed == Called("place_bet", pb, b.result)
         IN  IF Failed(b.result)
             THEN Ret(b.game, pb,
                      SnapError(BuildSnapshot(b.game, pb, None),
                                DictGet(b.result, "error", "bet_failed")),
                      <<placed, Built>>)
             ELSE SpinTail(b.game, <<placed>>)
    ELSE SpinTail(g, <<>>)

\* Lines 195-202 with the grid indices added before the game is looked at.
GetSnapshotIndicesFirst(g, pb) ==
    IF g = NoGame
    THEN Ret(g, pb,
             [ErrorOnly("no_game") EXCEPT !.grid_indices = Some(GridToIndices(g))],
             <<>>)
    ELSE Ret(g, pb,
             [Snap(BuildSnapshot(g, pb, None))
                 EXCEPT !.grid_indices = Some(GridToIndices(g))],
             <<Built>>)

\* Lines 195-202 with the pending bet dropped once it has been reported.
GetSnapshotClearingBet(g, pb) ==
    IF g = NoGame THEN NoGameRet(g, pb)
    ELSE Ret(g, 0,
             [Snap(BuildSnapshot(g, pb, None))
                 EXCEPT !.grid_indices = Some(GridToIndices(g))],
             <<Built>>)

\* Lines 195-202.
GetSnapshotOp(g, pb) ==
    IF g = NoGame THEN NoGameRet(g, pb)
    ELSE Ret(g, pb,
             [Snap(BuildSnapshot(g, pb, None))
                 EXCEPT !.grid_indices = Some(GridToIndices(g))],
             <<Built>>)

\* Lines 206-212 with self.pending_bet = 0 added, as line 114 has it.
EnterShopClearingBet(g, pb) ==
    IF g = NoGame THEN NoGameRet(g, pb)
    ELSE LET r == GM_enter_shop(g)
         IN  Ret(r.game, 0, Snap(BuildSnapshot(r.game, 0, None)),
                 <<Called("enter_shop", 0, r.result), Built>>)

\* Lines 206-212.
EnterShopOp(g, pb) ==
    IF g = NoGame THEN NoGameRet(g, pb)
    ELSE LET r == GM_enter_shop(g)
         IN  Ret(r.game, pb, Snap(BuildSnapshot(r.game, 0, None)),
                 <<Called("enter_shop", 0, r.result), Built>>)

\* Lines 214-220.
LeaveShopOp(g, pb) ==
    IF g = NoGame THEN NoGameRet(g, pb)
    ELSE LET r == GM_leave_shop(g)
         IN  Ret(r.game, pb, Snap(BuildSnapshot(r.game, 0, None)),
                 <<Called("leave_shop", 0, r.result), Built>>)

\* Lines 227-231, 238-242, 249-253, 268-272: the snapshot, with the error
\* read from the result under `key` when the result reports no success.
ShopResponse(r, key, default) ==
    IF Failed(r.result)
    THEN SnapError(BuildSnapshot(r.game, 0, None), DictGet(r.result, key, default))
    ELSE Snap(BuildSnapshot(r.game, 0, None))

\* Lines 222-231 with the error read under "error", as lines 241, 252 and 271
\* read it.
BuyOfferReadingError(g, pb, index) ==
    IF g = NoGame THEN NoGameRet(g, pb)
    ELSE LET r == GM_buy_face_up_offer(g, index)
         IN  Ret(r.game, pb, ShopResponse(r, "error", "buy_failed"),
                 <<Called("buy_face_up_offer", index, r.result), Built>>)

\* Lines 222-231.
BuyOfferOp(g, pb, index) ==
    IF g = NoGame THEN NoGameRet(g, pb)
    ELSE LET r == GM_buy_face_up_offer(g, index)
         IN  Ret(r.game, pb, ShopResponse(r, "error_key", "buy_failed"),
                 <<Called("buy_face_up_offer", index, r.result), Built>>)

\* Lines 233-242.
OpenPackOp(g, pb, index) ==
    IF g = NoGame THEN NoGameRet(g, pb)
    ELSE LET r == GM_open_pack(g, index)
         IN  Ret(r.game, pb, ShopResponse(r, "error", "pack_failed"),
                 <<Called("open_pack", index, r.result), Built>>)

\* Lines 244-253 with the result discarded, as skip_pack discards it.
PickFromPackIgnoringResult(g, pb, index) ==
    IF g = NoGame THEN NoGameRet(g, pb)
    ELSE LET r == GM_pick_pack_item(g, index)
         IN  Ret(r.game, pb, Snap(BuildSnapshot(r.game, 0, None)),
                 <<Called("pick_pack_item", index, r.result), Built>>)

\* Lines 244-253.
PickFromPackOp(g, pb, index) ==
    IF g = NoGame THEN NoGameRet(g, pb)
    ELSE LET r == GM_pick_pack_item(g, index)
         IN  Ret(r.game, pb, ShopResponse(r, "error", "pick_failed"),
                 <<Called("pick_pack_item", index, r.result), Built>>)

\* Lines 255-261.
SkipPackOp(g, pb) ==
    IF g = NoGame THEN NoGameRet(g, pb)
    ELSE LET r == GM_skip_pack(g)
         IN  Ret(r.game, pb, Snap(BuildSnapshot(r.game, 0, None)),
                 <<Called("skip_pack", 0, r.result), Built>>)

\* Lines 263-272.
RefreshShopOp(g, pb) ==
    IF g = NoGame THEN NoGameRet(g, pb)
    ELSE LET r == GM_refresh_shop(g)
         IN  Ret(r.game, pb, ShopResponse(r, "error", "refresh_failed"),
                 <<Called("refresh_shop", 0, r.result), Built>>)

\* Lines 302-304 with the fallback of line 297.
GetSymbolIndexUnknown(symbol_name) == DictGet(SYMBOL_TO_INDEX, symbol_name, 9)

\* Lines 302-304.
GetSymbolIndexOp(symbol_name) == DictGet(SYMBOL_TO_INDEX, symbol_name, 0)

\* Lines 306-308.
GetSymbolNameOp(index) == DictGet(INDEX_TO_SYMBOL, index, "cherry")

(***************************************************************************)
(* The state machine.                                                      *)
(***************************************************************************)
Seeds == 0..MaxSeed
Entropy == 1..MaxSeed
Indices == -1..MaxIndex

NoResponse == [seed |-> None, error |-> None, snapshot |-> None, grid_indices |-> None]
NoTwin == [game |-> NoGame, pending_bet |-> 0, response |-> NoResponse, seed_arg |-> -1]
\* Nothing looked up yet.
NoLookup == [name |-> "", index |-> -1]

\* The balances the model follows.
Within(g) == IF g = NoGame THEN TRUE ELSE g.tokens <= MaxTokens

\* _ready (lines 82-86).
Init ==
    /\ game = NoGame
    /\ pending_bet = 0
    /\ response = NoResponse
    /\ calls = <<>>
    /\ op = [name |-> "_ready", arg |-> 0]
    /\ twin = NoTwin
    /\ steps = 0
    /\ lookup = NoLookup

Apply(name, arg, r) ==
    /\ Within(r.game)
    /\ game' = r.game
    /\ pending_bet' = r.pending_bet
    /\ response' = r.response
    /\ calls' = r.calls
    /\ op' = [name |-> name, arg |-> arg]
    /\ UNCHANGED <<twin, steps, lookup>>

new_game ==
    \E seed \in Seeds, entropy \in Entropy :
        Apply("new_game", seed, NewGameOp(game, pending_bet, seed, entropy))
start_round == Apply("start_round", 0, StartRoundOp(game, pending_bet))
end_round == Apply("end_round", 0, EndRoundOp(game, pending_bet))
insert_token == Apply("insert_token", 0, InsertTokenOp(game, pending_bet))
remove_token == Apply("remove_token", 0, RemoveTokenOp(game, pending_bet))
spin == Apply("spin", 0, SpinOp(game, pending_bet))
get_snapshot == Apply("get_snapshot", 0, GetSnapshotOp(game, pending_bet))
enter_shop == Apply("enter_shop", 0, EnterShopOp(game, pending_bet))
leave_shop == Apply("leave_shop", 0, LeaveShopOp(game, pending_bet))
buy_offer ==
    \E index \in Indices : Apply("buy_offer", index, BuyOfferOp(game, pending_bet, index))
open_pack ==
    \E index \in Indices : Apply("open_pack", index, OpenPackOp(game, pending_bet, index))
pick_from_pack ==
    \E index \in Indices :
        Apply("pick_from_pack", index, PickFromPackOp(game, pending_bet, index))
skip_pack == Apply("skip_pack", 0, SkipPackOp(game, pending_bet))
refresh_shop == Apply("refresh_shop", 0, RefreshShopOp(game, pending_bet))

Next ==
    \/ new_game
    \/ start_round
    \/ end_round
    \/ insert_token
    \/ remove_token
    \/ spin
    \/ get_snapshot
    \/ enter_shop
    \/ leave_shop
    \/ buy_offer
    \/ open_pack
    \/ pick_from_pack
    \/ skip_pack
    \/ refresh_shop

Spec == Init /\ [][Next]_vars

(***************************************************************************)
(* Insert/remove sequences on an active game whose tokens and max_bet do   *)
(* not change: any balance and any limit, pending_bet starting at 0.       *)
(***************************************************************************)
InitBet ==
    /\ \E t \in 0..MaxDrawn, m \in 0..MaxDrawn, ph \in {"Idle", "RoundActive"} :
          game = [GM_new(Some(1), 1) EXCEPT !.tokens = t, !.max_bet = m, !.phase = ph]
    /\ pending_bet = 0
    /\ response = NoResponse
    /\ calls = <<>>
    /\ op = [name |-> "_ready", arg |-> 0]
    /\ twin = NoTwin
    /\ steps = 0
    /\ lookup = NoLookup

NextBet == insert_token \/ remove_token

SpecBet == InitBet /\ [][NextBet]_vars

(***************************************************************************)
(* The grid conversion as a function of the grid: a game whose grid is any *)
(* grid of at most MaxCells cells, None, or a list without rows or columns.*)
(***************************************************************************)
CellSamples ==
    {NoneCell, SymbolCell("seven"), SymbolCell("joker"), PlainCell("rainbow"),
     PlainCell("Symbol.BELL")}

DrawnGrids ==
    {NoneGrid} \cup
    UNION {{ListGrid(rows) : rows \in [1..R -> [1..C -> CellSamples]]} :
           <<R, C>> \in {rc \in (0..MaxCells) \X (0..MaxCells) : rc[1] * rc[2] <= MaxCells}}

InitGrid ==
    /\ \E gr \in DrawnGrids : game = [GM_new(Some(1), 1) EXCEPT !.grid = gr]
    /\ pending_bet = 0
    /\ response = NoResponse
    /\ calls = <<>>
    /\ op = [name |-> "_ready", arg |-> 0]
    /\ twin = NoTwin
    /\ steps = 0
    /\ lookup = NoLookup

NextGrid == get_snapshot

SpecGrid == InitGrid /\ [][NextGrid]_vars

(***************************************************************************)
(* Two bridges given the same calls; each draws its own entropy.           *)
(***************************************************************************)
BridgeCall(c, g, pb, entropy) ==
    CASE c.name = "new_game" -> NewGameOp(g, pb, c.arg, entropy)
      [] c.name = "start_round" -> StartRoundOp(g, pb)
      [] c.name = "end_round" -> EndRoundOp(g, pb)
      [] c.name = "insert_token" -> InsertTokenOp(g, pb)
      [] c.name = "remove_token" -> RemoveTokenOp(g, pb)
      [] c.name = "spin" -> SpinOp(g, pb)
      [] c.name = "get_snapshot" -> GetSnapshotOp(g, pb)
      [] c.name = "enter_shop" -> EnterShopOp(g, pb)
      [] c.name = "leave_shop" -> LeaveShopOp(g, pb)
      [] c.name = "buy_offer" -> BuyOfferOp(g, pb, c.arg)
      [] c.name = "open_pack" -> OpenPackOp(g, pb, c.arg)
      [] c.name = "pick_from_pack" -> PickFromPackOp(g, pb, c.arg)
      [] c.name = "skip_pack" -> SkipPackOp(g, pb)
      [] c.name = "refresh_shop" -> RefreshShopOp(g, pb)

BridgeCalls ==
    {[name |-> "new_game", arg |-> seed] : seed \in Seeds}
    \cup {[name |-> n, arg |-> 0] :
            n \in {"start_round", "end_round", "insert_token", "remove_token", "spin",
                   "get_snapshot", "enter_shop", "leave_shop", "skip_pack",
                   "refresh_shop"}}
    \cup {[name |-> n, arg |-> index] :
            n \in {"buy_offer", "open_pack", "pick_from_pack"}, index \in Indices}

TwinCall ==
    /\ steps < MaxTwinSteps
    /\ \E c \in BridgeCalls, e1 \in Entropy, e2 \in Entropy :
          LET r1 == BridgeCall(c, game, pending_bet, e1)
              r2 == BridgeCall(c, twin.game, twin.pending_bet, e2)
          IN  /\ Within(r1.game)
              /\ Within(r2.game)
              /\ game' = r1.game
              /\ pending_bet' = r1.pending_bet
              /\ response' = r1.response
              /\ calls' = r1.calls
              /\ op' = c
              /\ twin' = [game |-> r2.game, pending_bet |-> r2.pending_bet,
                          response |-> r2.response,
                          seed_arg |-> IF c.name = "new_game" THEN c.arg
                                       ELSE twin.seed_arg]
              /\ steps' = steps + 1
              /\ UNCHANGED lookup

SpecTwin == Init /\ [][TwinCall]_vars

(***************************************************************************)
(* Two bridges given the same calls with the same entropy, but for the     *)
(* get_snapshot calls, which only the first is given.                      *)
(***************************************************************************)
QuietCall ==
    /\ steps < MaxQuietSteps
    /\ \E c \in BridgeCalls, e \in Entropy :
          LET r1 == BridgeCall(c, game, pending_bet, e)
              r2 == BridgeCall(c, twin.game, twin.pending_bet, e)
          IN  /\ Within(r1.game)
              /\ game' = r1.game
              /\ pending_bet' = r1.pending_bet
              /\ response' = r1.response
              /\ calls' = r1.calls
              /\ op' = c
              /\ twin' = IF c.name = "get_snapshot" THEN twin
                         ELSE [game |-> r2.game, pending_bet |-> r2.pending_bet,
                               response |-> r2.response,
                               seed_arg |-> IF c.name = "new_game" THEN c.arg
                                            ELSE twin.seed_arg]
              /\ steps' = steps + 1
              /\ UNCHANGED lookup

SpecQuiet == Init /\ [][QuietCall]_vars

(***************************************************************************)
(* The shop and its pack sub-state: a game that has entered the shop, with *)
(* any balance, given buy_offer, open_pack, pick_from_pack, skip_pack and  *)
(* refresh_shop calls.  `steps` counts the picks granted from the pack     *)
(* last opened.                                                            *)
(***************************************************************************)
InitPack ==
    /\ \E t \in 0..MaxDrawn, seed \in 1..MaxSeed :
          game = GM_enter_shop([GM_new(Some(seed), 1) EXCEPT !.tokens = t]).game
    /\ pending_bet = 0
    /\ response = NoResponse
    /\ calls = <<>>
    /\ op = [name |-> "_ready", arg |-> 0]
    /\ twin = NoTwin
    /\ steps = 0
    /\ lookup = NoLookup

PackCalls ==
    {c \in BridgeCalls :
        c.name \in {"buy_offer", "open_pack", "pick_from_pack", "skip_pack",
                    "refresh_shop"}}

PackCall ==
    \E c \in PackCalls :
        LET r == BridgeCall(c, game, pending_bet, 1)
        IN  /\ game' = r.game
            /\ pending_bet' = r.pending_bet
            /\ response' = r.response
            /\ calls' = r.calls
            /\ op' = c
            /\ steps' = IF c.name = "open_pack" /\ r.calls[1].ok THEN 0
                         ELSE IF c.name = "pick_from_pack" /\ r.calls[1].ok
                         THEN steps + 1
                         ELSE steps
            /\ UNCHANGED <<twin, lookup>>

SpecPack == InitPack /\ [][PackCall]_vars

(***************************************************************************)
(* The symbol helpers as functions of their argument: a caller holding any *)
(* name and any index asks for the index of its name or the name of its    *)
(* index, and keeps what it is given.                                      *)
(***************************************************************************)
Palette == DOMAIN SYMBOL_TO_INDEX
SymbolNames == Palette \cup {"joker", "Symbol.BELL", ""}
Pictures == -1..MaxPicture

InitSymbol ==
    /\ game = NoGame
    /\ pending_bet = 0
    /\ response = NoResponse
    /\ calls = <<>>
    /\ op = [name |-> "_ready", arg |-> 0]
    /\ twin = NoTwin
    /\ steps = 0
    /\ \E n \in SymbolNames, i \in Pictures : lookup = [name |-> n, index |-> i]

get_symbol_index ==
    /\ lookup' = [lookup EXCEPT !.index = GetSymbolIndexOp(lookup.name)]
    /\ op' = [name |-> "get_symbol_index", arg |-> 0]
    /\ UNCHANGED <<game, pending_bet, response, calls, twin, steps>>

get_symbol_name ==
    /\ lookup' = [lookup EXCEPT !.name = GetSymbolNameOp(lookup.index)]
    /\ op' = [name |-> "get_symbol_name", arg |-> 0]
    /\ UNCHANGED <<game, pending_bet, response, calls, twin, steps>>

NextSymbol == get_symbol_index \/ get_symbol_name

SpecSymbol == InitSymbol /\ [][NextSymbol]_vars

(***************************************************************************)
(* Properties.                                                             *)
(***************************************************************************)
Fn(cs) == [i \in DOMAIN cs |-> cs[i].fn]

\* C1: after any sequence of insert_token and remove_token calls on an active
\* game whose tokens and max_bet stay as they are, starting from
\* pending_bet = 0, 0 <= pending_bet <= min(tokens, max_bet).
C1_PendingBetWithinLimits ==
    /\ 0 <= pending_bet
    /\ pending_bet <= game.tokens
    /\ pending_bet <= game.max_bet

\* An insert refused at a bet that has reached both the balance and the limit.
C1_Witness ==
    /\ op.name = "insert_token"
    /\ response.error = Some("max_bet_reached")
    /\ pending_bet >= 2
    /\ pending_bet = game.tokens
    /\ pending_bet = game.max_bet

\* C2: in every reachable state 0 <= pending_bet <= tokens and
\* pending_bet <= max_bet, also after a shop operation that spends tokens
\* while a bet is pending.
C2_PendingBetWithinTokens ==
    game # NoGame =>
        /\ 0 <= pending_bet
        /\ pending_bet <= game.tokens
        /\ pending_bet <= game.max_bet

\* C3: a spin with pending_bet = p > 0 whose place_bet(p) succeeds calls
\* place_bet once, with p, before the backend spin, and leaves
\* tokens = tokens_before - p + payout.
C3_SpinDeductsBet ==
    [][(/\ op'.name = "spin"
        /\ game # NoGame
        /\ pending_bet > 0
        /\ ~Failed(GM_place_bet(game, pending_bet).result))
       => /\ Fn(calls') = <<"place_bet", "spin", "build_snapshot">>
          /\ calls'[1].arg = pending_bet
          /\ calls'[1].ok
          /\ response'.error = None
          /\ game'.tokens =
                game.tokens - pending_bet + response'.snapshot[1].scoring[1].payout
          /\ response'.snapshot[1].tokens = game'.tokens]_vars

\* A spin that placed the whole limit as its bet and paid out.
C3_Witness ==
    /\ op.name = "spin"
    /\ Len(calls) = 3
    /\ calls[1].fn = "place_bet"
    /\ calls[1].arg = MaxBetStat
    /\ calls[1].ok
    /\ response.snapshot[1].scoring[1].payout > 0

\* C4: while no game exists every operation but new_game returns a record
\* that holds only error = no_game, calls nothing in the backend and leaves
\* game and pending_bet as they are; every other response that carries an
\* error carries a snapshot too.
C4_NoGame ==
    /\ [][(game = NoGame /\ op'.name # "new_game")
          => /\ response' = ErrorOnly("no_game")
             /\ calls' = <<>>
             /\ game' = NoGame
             /\ pending_bet' = pending_bet]_vars
    /\ [](response.error # None /\ response.error # Some("no_game")
            => response.snapshot # None)
    /\ [](response.error = Some("no_game")
            => game = NoGame /\ response = ErrorOnly("no_game"))

\* A spin asked of a bridge that holds no game.
C4_Witness ==
    /\ game = NoGame
    /\ op.name = "spin"
    /\ response.error = Some("no_game")

\* C5: a spin whose place_bet(pending_bet) fails does not run the backend
\* spin: the game (grid, tokens, phase) and pending_bet stay as they were and
\* the snapshot returned carries the backend's error kind.
C5_FailedBetChangesNothing ==
    [][(/\ op'.name = "spin"
        /\ game # NoGame
        /\ pending_bet > 0
        /\ Failed(GM_place_bet(game, pending_bet).result))
       => /\ game' = game
          /\ pending_bet' = pending_bet
          /\ Fn(calls') = <<"place_bet", "build_snapshot">>
          /\ response'.snapshot # None
          /\ response'.snapshot[1].tokens = game.tokens
          /\ response'.error =
                Some(DictGet(GM_place_bet(game, pending_bet).result, "error",
                             "bet_failed"))]_vars

\* A spin refused because the balance no longer covers the pending bet.
C5_Witness ==
    /\ op.name = "spin"
    /\ pending_bet > 0
    /\ response.error = Some("insufficient_tokens")

\* C6: when the backend rejects a call as not valid in the current phase,
\* the record the bridge returns has an error field and pending_bet is as it
\* was before the call.
PhaseErrors == {"invalid_phase", "no_open_pack"}

C6_RejectionsReported ==
    [][(\E i \in DOMAIN calls' : ~calls'[i].ok /\ calls'[i].why \in PhaseErrors)
       => /\ response'.error # None
          /\ pending_bet' = pending_bet]_vars

\* C7: tokens >= 0 in every reachable state, and a bet larger than the
\* balance is rejected: the spin reports an error and the balance is as it
\* was, never reduced by a smaller bet.
C7_TokensNeverNegative ==
    /\ [](game # NoGame => game.tokens >= 0)
    /\ [][(/\ op'.name = "spin"
           /\ game # NoGame
           /\ pending_bet > game.tokens)
          => /\ response'.error # None
             /\ game'.tokens = game.tokens]_vars

\* A round spin refused with a positive balance smaller than the bet.
C7_Witness ==
    /\ op.name = "spin"
    /\ game # NoGame
    /\ game.phase = "RoundActive"
    /\ game.tokens > 0
    /\ pending_bet > game.tokens
    /\ response.error = Some("insufficient_tokens")

\* C8 as claimed: two bridges given the same calls, new_game(S) with any
\* seed S included, return the same record at every step.
C8_SameCallsSameSnapshots == response = twin.response

\* C8: for every seed S other than 0, two games made by new_game(S) and
\* given the same calls return the same record at every step.
C8_NonzeroSeedSameSnapshots == twin.seed_arg # 0 => response = twin.response

\* Two seeded bridges after a spin that drew a grid.
C8_Witness ==
    /\ twin.seed_arg > 0
    /\ op.name = "spin"
    /\ response.error = None
    /\ response.snapshot # None
    /\ response.snapshot[1].scoring[1].ok
    /\ twin.response.snapshot # None

\* C9: new_game, in any state, leaves a game in phase Idle with tokens at
\* the config default, nothing of the previous game and pending_bet = 0;
\* once a game exists the bridge never returns to holding none.
C9_NewGameResets ==
    /\ [][op'.name = "new_game"
          => /\ game' # NoGame
             /\ game'.phase = "Idle"
             /\ game'.tokens = StartTokens
             /\ game'.grid = EmptyGrid
             /\ game'.offers = <<>>
             /\ game'.pack_picks = 0
             /\ pending_bet' = 0
             /\ response'.snapshot[1].pending_bet = 0]_vars
    /\ [][game # NoGame => game' # NoGame]_vars

\* A game just made.
C9_Witness ==
    /\ op.name = "new_game"
    /\ game # NoGame
    /\ game.phase = "Idle"
    /\ pending_bet = 0

\* The picture index expected of each sampled cell, written out.
ExpectedIndex(cell) ==
    CASE cell = NoneCell -> 9
      [] cell = SymbolCell("seven") -> 2
      [] cell = SymbolCell("joker") -> 9
      [] cell = PlainCell("rainbow") -> 10
      [] cell = PlainCell("Symbol.BELL") -> 9

\* C10: for a grid of R rows and C columns grid_indices has C entries of
\* length R, and grid_indices[c][r] is the table's index of the name of
\* grid[r][c], or 9 for an empty cell or a name the table lacks; a grid that
\* is None or empty gives the empty list.
C10_GridIndices ==
    op.name = "get_snapshot" =>
        LET gi == response.grid_indices[1]
            grid == game.grid
        IN  IF grid.kind = "None" THEN gi = <<>>
            ELSE IF Len(grid.rows) = 0 THEN gi = <<>>
            ELSE LET R == Len(grid.rows)
                     C == Len(grid.rows[1])
                 IN  /\ Len(gi) = C
                     /\ \A c \in 1..C :
                           /\ Len(gi[c]) = R
                           /\ \A r \in 1..R : gi[c][r] = ExpectedIndex(grid.rows[r][c])

\* A row of three cells converted to three columns of one index each.
C10_Witness ==
    /\ op.name = "get_snapshot"
    /\ game.grid = ListGrid(<< <<NoneCell, SymbolCell("seven"), PlainCell("rainbow")>> >>)
    /\ response.grid_indices = Some(<< <<9>>, <<2>>, <<10>> >>)

\* C11: a pack is opened with PackPicks picks; a granted pick that is not the
\* PackPicks-th leaves the pack open, the PackPicks-th destroys it and leaves
\* the plain Shop; never more than PackPicks picks are granted from one
\* pack, and a pick_from_pack after them returns a snapshot with an error
\* field and changes nothing.
C11_PackPicks ==
    /\ [](steps <= PackPicks)
    /\ [][(op'.name = "open_pack" /\ response'.error = None)
          => /\ game'.pack_picks = PackPicks
             /\ ~InShop(game')]_vars
    /\ []((op.name = "pick_from_pack" /\ response.error = None)
            => IF steps = PackPicks
               THEN InShop(game) /\ game.pack_items = 0
               ELSE game.phase = "Shop" /\ game.pack_picks = PackPicks - steps)
    /\ [][(op'.name = "pick_from_pack" /\ steps = PackPicks)
          => /\ ~calls'[1].ok
             /\ response'.error # None
             /\ response'.snapshot # None
             /\ game' = game]_vars

\* A pick asked for after the pack's last pick was granted.
C11_Witness ==
    /\ op.name = "pick_from_pack"
    /\ op.arg = 0
    /\ steps = PackPicks
    /\ InShop(game)
    /\ response.error = Some("no_open_pack")

C13_SnapshotReportsPendingBet ==
    response.snapshot # None => response.snapshot[1].pending_bet = pending_bet

\* C14: with an active game insert_token reports max_bet_reached when
\* pending_bet >= max_bet (whatever the spare tokens), else no_tokens when
\* tokens - pending_bet <= 0, else adds exactly 1 to pending_bet;
\* remove_token reports no_bet_to_remove when pending_bet <= 0, else takes
\* exactly 1 from pending_bet; a refused call leaves pending_bet as it was,
\* and neither call changes the game, its tokens included.
C14_InsertRemove ==
    /\ [][op'.name = "insert_token"
          => /\ game' = game
             /\ game'.tokens = game.tokens
             /\ response'.snapshot # None
             /\ response'.snapshot[1].pending_bet = pending_bet'
             /\ IF pending_bet >= game.max_bet
                THEN /\ response'.error = Some("max_bet_reached")
                     /\ pending_bet' = pending_bet
                ELSE IF game.tokens - pending_bet <= 0
                THEN /\ response'.error = Some("no_tokens")
                     /\ pending_bet' = pending_bet
                ELSE /\ response'.error = None
                     /\ pending_bet' = pending_bet + 1]_vars
    /\ [][op'.name = "remove_token"
          => /\ game' = game
             /\ game'.tokens = game.tokens
             /\ response'.snapshot # None
             /\ response'.snapshot[1].pending_bet = pending_bet'
             /\ IF pending_bet <= 0
                THEN /\ response'.error = Some("no_bet_to_remove")
                     /\ pending_bet' = pending_bet
                ELSE /\ response'.error = None
                     /\ pending_bet' = pending_bet - 1]_vars

\* An insert refused for the limit while no spare token remains either.
C14_Witness ==
    /\ op.name = "insert_token"
    /\ game.max_bet = 1
    /\ pending_bet = game.max_bet
    /\ game.tokens - pending_bet <= 0
    /\ response.error = Some("max_bet_reached")
    /\ response.snapshot[1].pending_bet = 1

\* The calls that never assign self.pending_bet.
KeepingBet ==
    {"enter_shop", "leave_shop", "buy_offer", "open_pack", "pick_from_pack",
     "skip_pack", "refresh_shop", "get_snapshot"}

\* C15: with an active game start_round, end_round, new_game and a spin whose
\* bet is accepted or whose pending_bet is 0 leave pending_bet = 0; the shop
\* calls, get_snapshot and a spin whose bet is refused leave pending_bet as
\* it was.
C15_PendingBetFrame ==
    [][game # NoGame
       => /\ op'.name \in {"start_round", "end_round", "new_game"}
                => pending_bet' = 0
          /\ op'.name = "spin"
                => IF pending_bet > 0 /\ Failed(GM_place_bet(game, pending_bet).result)
                   THEN pending_bet' = pending_bet
                   ELSE pending_bet' = 0
          /\ op'.name \in KeepingBet => pending_bet' = pending_bet]_vars

\* A shop left with the bet gathered before it still pending.
C15_Witness ==
    /\ op.name = "leave_shop"
    /\ game # NoGame
    /\ game.phase = "RoundActive"
    /\ pending_bet = MaxBetStat

\* C16: a spin with an active game and pending_bet = 0 does not call
\* place_bet, does call the backend spin, takes no bet from tokens (they
\* change by the payout alone) and returns the scoring data and
\* grid_indices without an error.
C16_FreeSpin ==
    [][(op'.name = "spin" /\ game # NoGame /\ pending_bet = 0)
       => /\ Fn(calls') = <<"spin", "build_snapshot">>
          /\ game' = GM_spin(game).game
          /\ response'.error = None
          /\ response'.snapshot # None
          /\ response'.snapshot[1].scoring = Some(GM_spin(game).result)
          /\ game'.tokens = game.tokens + response'.snapshot[1].scoring[1].payout
          /\ game'.tokens >= game.tokens
          /\ response'.grid_indices = Some(GridToIndices(game'))
          /\ pending_bet' = 0]_vars

\* A free spin in a round: the grid drawn, the whole starting balance kept.
C16_Witness ==
    /\ op.name = "spin"
    /\ pending_bet = 0
    /\ Fn(calls) = <<"spin", "build_snapshot">>
    /\ calls[1].ok
    /\ game.phase = "RoundActive"
    /\ game.grid # EmptyGrid
    /\ game.tokens = StartTokens
    /\ response.grid_indices # None

\* C17: a bridge given get_snapshot calls among its calls holds the same
\* game (phase, tokens, grid, shop and pack state) and the same pending_bet
\* as a bridge given the other calls alone, and every other call returns
\* the same record on both; each snapshot get_snapshot returns reports the
\* stored pending_bet.
C17_GetSnapshotPure ==
    /\ game = twin.game
    /\ pending_bet = twin.pending_bet
    /\ op.name # "get_snapshot" => response = twin.response
    /\ (op.name = "get_snapshot" /\ game # NoGame)
          => /\ calls = <<Built>>
             /\ response.error = None
             /\ response.snapshot # None
             /\ response.snapshot[1].pending_bet = pending_bet
             /\ response.snapshot[1].phase = game.phase
             /\ response.snapshot[1].tokens = game.tokens

\* A snapshot taken with a bet pending, which the other bridge was not
\* asked for: its last record is that of the call before.
C17_Witness ==
    /\ op.name = "get_snapshot"
    /\ game # NoGame
    /\ pending_bet > 0
    /\ response.snapshot # None
    /\ response.snapshot[1].pending_bet = pending_bet
    /\ twin.response # response
    /\ twin.game = game

\* The table pairs the 11 palette names with the indices 0..10, one to one,
\* and INDEX_TO_SYMBOL is its inverse.
TableBijection ==
    /\ Cardinality(Palette) = 11
    /\ {SYMBOL_TO_INDEX[n] : n \in Palette} = 0..10
    /\ \A n1, n2 \in Palette : SYMBOL_TO_INDEX[n1] = SYMBOL_TO_INDEX[n2] => n1 = n2
    /\ DOMAIN INDEX_TO_SYMBOL = 0..10
    /\ \A n \in Palette : INDEX_TO_SYMBOL[SYMBOL_TO_INDEX[n]] = n

\* get_symbol_name of the index get_symbol_index gave for a palette name is
\* that name, and get_symbol_index of the name get_symbol_name gave for an
\* index in 0..10 is that index.
RoundTrips ==
    /\ [][(/\ op.name = "get_symbol_index"
           /\ op'.name = "get_symbol_name"
           /\ lookup.name \in Palette)
          => lookup'.name = lookup.name]_vars
    /\ [][(/\ op.name = "get_symbol_name"
           /\ op'.name = "get_symbol_index"
           /\ lookup.index \in 0..10)
          => lookup'.index = lookup.index]_vars

\* C18 as claimed: the table is a bijection, both round trips hold, and a
\* name the table lacks is given by get_symbol_index the index the grid
\* conversion gives it.
C18_SameFallback ==
    /\ []TableBijection
    /\ RoundTrips
    /\ [][(op'.name = "get_symbol_index" /\ lookup.name \notin Palette)
          => lookup'.index = CellIndex(SymbolCell(lookup.name))]_vars

\* C18: the table is a bijection and both round trips hold; a name the
\* table lacks is given index 0, the index of cherry, by get_symbol_index
\* and index 9, the index of unknown, by the grid conversion.
C18_TableAndFallbacks ==
    /\ []TableBijection
    /\ RoundTrips
    /\ [][(op'.name = "get_symbol_index" /\ lookup.name \notin Palette)
          => /\ lookup'.index = 0
             /\ lookup'.index = SYMBOL_TO_INDEX["cherry"]
             /\ CellIndex(SymbolCell(lookup.name)) = 9
             /\ CellIndex(SymbolCell(lookup.name)) = SYMBOL_TO_INDEX["unknown"]]_vars

\* The index of a name the table lacks, asked for and given as 0.
C18_Witness ==
    /\ op.name = "get_symbol_index"
    /\ lookup.name = "joker"
    /\ lookup.index = 0
    /\ CellIndex(SymbolCell(lookup.name)) = 9
====
